---- MODULE Spec2Model ----
(***************************************************************************)
(* A model of kyverno-artifact-watcher (src/main.go): the polling loop     *)
(* that resolves the current version of a registry artifact, compares it   *)
(* with the last-seen marker file, pulls, labels and applies the manifests *)
(* and persists the marker.                                                *)
(*                                                                         *)
(* Go strings are sequences of one-character strings, so that Split,       *)
(* Join, TrimSpace, ToLower and ReplaceAll are computed as the library     *)
(* computes them.                                                          *)
(***************************************************************************)
EXTENDS Integers, Sequences, FiniteSets, TLC

VARIABLES
    pc,          \* position of the single thread of control
    env,         \* the process environment (os.Getenv)
    config,      \* *Config returned by loadConfig
    lastFile,    \* the state file config.LastFile: [exists, data]
    resp,        \* watchLoop: the answer of the package-metadata API
    latest,      \* watchLoop: local variable latest
    prevTag,     \* watchLoop: local variable prevTag
    fs,          \* destination directories: dir name -> file name -> document
    files,       \* the files slice a range loop is walking (rest of it)
    trace,       \* the calls made so far by the current iteration
    ret,         \* what the last finished watchLoop call returned
    fileAtStart, \* lastFile when the current iteration began
    okVersions,  \* versions whose pull and apply both returned nil
    crashPc,     \* where the process was when it was killed
    faults,      \* local I/O failures and kills so far
    branch,      \* watchLoop: the branch line 246 took, "" before it
    yamlIn,      \* addLabelsToYAML on its own: the bytes first handed to it
    yamlTag,     \* addLabelsToYAML on its own: the tag
    yamlOut,     \* addLabelsToYAML on its own: the bytes returned, per call
    imageRef,    \* pullImageToDirReal: local variable imageRef, "" before it
    layers,      \* pullOCI: local variable layers
    failedLayer  \* pullOCI: the index i whose processLayer failed, -1 if none

yamlVars == <<yamlIn, yamlTag, yamlOut>>

pullVars == <<imageRef, layers, failedLayer>>

vars == <<pc, env, config, lastFile, resp, latest, prevTag, fs, files, trace,
          ret, fileAtStart, okVersions, crashPc, faults, branch, yamlVars,
          pullVars>>

----------------------------------------------------------------------------
(* Strings *)

Str_github == <<"g","i","t","h","u","b">>

Str_artifactory == <<"a","r","t","i","f","a","c","t","o","r","y">>

Str_versionid == <<"v","e","r","s","i","o","n","-","i","d","-">>

Digits == <<"0","1","2","3","4","5","6","7","8","9">>

\* fmt.Sprintf("%d", n) for the non-negative ids of the model
RECURSIVE Itoa(_)
Itoa(n) ==
    IF n < 10 THEN <<Digits[n + 1]>>
    ELSE Itoa(n \div 10) \o <<Digits[(n % 10) + 1]>>

\* index of the first occurrence of character c in s, 0 when there is none
RECURSIVE IndexFrom(_, _, _)
IndexFrom(s, c, i) ==
    IF i > Len(s) THEN 0
    ELSE IF s[i] = c THEN i
    ELSE IndexFrom(s, c, i + 1)

\* strings.Split(s, c) for a one-character separator c
RECURSIVE Split(_, _)
Split(s, c) ==
    LET i == IndexFrom(s, c, 1)
    IN  IF i = 0 THEN <<s>>
        ELSE <<SubSeq(s, 1, i - 1)>> \o Split(SubSeq(s, i + 1, Len(s)), c)

\* strings.Join(parts, c)
RECURSIVE Join(_, _)
Join(parts, c) ==
    IF Len(parts) = 0 THEN <<>>
    ELSE IF Len(parts) = 1 THEN parts[1]
    ELSE parts[1] \o <<c>> \o Join(Tail(parts), c)

\* strings.ReplaceAll(s, old, new) for one-character old and new
ReplaceAll(s, old, new) ==
    [i \in 1..Len(s) |-> IF s[i] = old THEN new ELSE s[i]]

WhiteSpace == {" ", "\t", "\n", "\r"}

RECURSIVE TrimLeft(_)
TrimLeft(s) ==
    IF Len(s) > 0 /\ s[1] \in WhiteSpace THEN TrimLeft(Tail(s)) ELSE s

RECURSIVE TrimRight(_)
TrimRight(s) ==
    IF Len(s) > 0 /\ s[Len(s)] \in WhiteSpace
    THEN TrimRight(SubSeq(s, 1, Len(s) - 1))
    ELSE s

\* strings.TrimSpace
TrimSpace(s) == TrimRight(TrimLeft(s))

UpperChars == <<"A","B","C","D","E","F","G","H","I","J","K","L","M",
                "N","O","P","Q","R","S","T","U","V","W","X","Y","Z">>

LowerChars == <<"a","b","c","d","e","f","g","h","i","j","k","l","m",
                "n","o","p","q","r","s","t","u","v","w","x","y","z">>

\* the lower-case letter of each upper-case letter
LowerOf ==
    [c \in {UpperChars[i] : i \in 1..Len(UpperChars)} |->
        LowerChars[IndexFrom(UpperChars, c, 1)]]

LowerChar(c) == IF c \in DOMAIN LowerOf THEN LowerOf[c] ELSE c

\* strings.ToLower
ToLower(s) == [i \in 1..Len(s) |-> LowerChar(s[i])]

----------------------------------------------------------------------------
(* Configuration: main.go loadConfig and parseImageBase *)

Str_ghop == <<"g","/","o","/","p">>

Str_ghopTagged == <<"g","/","o","/","p",":","t">>

Str_gho == <<"g","/","o">>

Str_rpV1 == <<"r","/","p",":","v","1">>

Str_rpNoTag == <<"r","/","p">>

Str_rpEmptyTag == <<"r","/","p",":">>

\* a reference with a registry port and no tag
Str_hostPortNoTag == <<"h",":","5","/","p">>

MkEnv(provider, imageBase, token, user, pass) ==
    [PROVIDER |-> provider, IMAGE_BASE |-> imageBase, GITHUB_TOKEN |-> token,
     ARTIFACTORY_USERNAME |-> user, ARTIFACTORY_PASSWORD |-> pass,
     POLL_INTERVAL |-> <<>>]

\* the environments the process is started in
Envs ==
    {MkEnv(<<>>, ib, <<"t">>, <<>>, <<>>) :
        ib \in {<<>>, Str_ghop, Str_ghopTagged, Str_gho}}
    \cup {MkEnv(<<>>, Str_ghop, <<>>, <<>>, <<>>)}
    \cup {MkEnv(Str_artifactory, ib, <<>>, <<"u">>, <<"s">>) :
        ib \in {<<>>, Str_rpV1, Str_rpNoTag, Str_rpEmptyTag, Str_hostPortNoTag}}
    \cup {MkEnv(Str_artifactory, Str_rpV1, <<>>, <<"u">>, <<>>)}
    \cup {MkEnv(<<"x">>, Str_ghop, <<"t">>, <<>>, <<>>)}

\* getEnvOrDefault: an unset variable reads as the empty string
getEnvOrDefault(value, defaultValue) ==
    IF value # <<>> THEN value ELSE defaultValue

DigitSet == {Digits[i] : i \in 1..Len(Digits)}

DigitValue == [c \in DigitSet |-> IndexFrom(Digits, c, 1) - 1]

\* the value strconv.ParseInt(tok, 10, 64) gives for a run of decimal digits
\* (the runs of the model are far below the 19 digits of the int64 range)
RECURSIVE ParseDigits(_, _)
ParseDigits(tok, acc) ==
    IF tok = <<>> THEN acc
    ELSE ParseDigits(Tail(tok), acc * 10 + DigitValue[Head(tok)])

\* fmt (*ss).SkipSpace with nlIsSpace false, as Sscanf sets it: blanks are
\* skipped, a newline is an error
RECURSIVE SkipSpace(_)
SkipSpace(s) ==
    IF s = <<>> THEN [rest |-> s, err |-> FALSE]
    ELSE IF Head(s) = "\n" THEN [rest |-> s, err |-> TRUE]
    ELSE IF Head(s) \in {" ", "\t", "\r"} THEN SkipSpace(Tail(s))
    ELSE [rest |-> s, err |-> FALSE]

\* fmt (*ss).scanNumber: the longest prefix of s made of the digits of verb
\* %d, which are 0-9 and the underscore
RECURSIVE ScanNumber(_)
ScanNumber(s) ==
    IF s # <<>> /\ Head(s) \in DigitSet \cup {"_"}
    THEN <<Head(s)>> \o ScanNumber(Tail(s))
    ELSE <<>>

\* fmt.Sscanf(value, "%d", &intVal): blanks are skipped, a sign is accepted,
\* the digits that follow are read and handed to strconv.ParseInt in base 10
\* (which rejects an underscore); the input after the digits is not looked at
Sscanf_d(value) ==
    LET skipped == SkipSpace(value)
        t       == skipped.rest
        signed  == t # <<>> /\ Head(t) \in {"+", "-"}
        tok     == ScanNumber(IF signed THEN Tail(t) ELSE t)
    IN  IF skipped.err \/ tok = <<>> \/ \E i \in 1..Len(tok) : tok[i] = "_"
        THEN [intVal |-> 0, err |-> TRUE]
        ELSE [intVal |-> IF signed /\ Head(t) = "-"
                         THEN 0 - ParseDigits(tok, 0)
                         ELSE ParseDigits(tok, 0),
              err |-> FALSE]

\* loadConfig, line 168: the default of POLL_INTERVAL, in seconds
DefaultPollInterval == 30

\* getEnvAsIntOrDefault: an unset variable reads as the empty string
getEnvAsIntOrDefault(value, defaultValue) ==
    IF value # <<>> /\ ~Sscanf_d(value).err
    THEN Sscanf_d(value).intVal
    ELSE defaultValue

\* stands for the one rune U+0001, a control character that is no white space
Ctrl == "^A"

\* the runes strings.Map drops from the token: r < 32 or r > 126
NonPrintable == {"\t", "\n", "\r", Ctrl}

StripNonPrintable(s) == SelectSeq(s, LAMBDA c : c \notin NonPrintable)

\* as parseImageBase, but only an empty package is rejected
parseImageBase_EmptyOwner(imageBase) ==
    LET base  == Split(imageBase, ":")[1]
        parts == Split(base, "/")
    IN  IF Len(parts) < 3
        THEN [owner |-> <<>>, packageName |-> <<>>, err |-> TRUE]
        ELSE LET owner == parts[2]
                 pkg   == Join(SubSeq(parts, 3, Len(parts)), "/")
             IN  IF pkg = <<>>
                 THEN [owner |-> <<>>, packageName |-> <<>>, err |-> TRUE]
                 ELSE [owner |-> owner, packageName |-> pkg, err |-> FALSE]

parseImageBase(imageBase) ==
    LET base  == Split(imageBase, ":")[1]
        parts == Split(base, "/")
    IN  IF Len(parts) < 3
        THEN [owner |-> <<>>, packageName |-> <<>>, err |-> TRUE]
        ELSE LET owner == parts[2]
                 pkg   == Join(SubSeq(parts, 3, Len(parts)), "/")
             IN  IF owner = <<>> \/ pkg = <<>>
                 THEN [owner |-> <<>>, packageName |-> <<>>, err |-> TRUE]
                 ELSE [owner |-> owner, packageName |-> pkg, err |-> FALSE]

NoConfig ==
    [Provider |-> <<>>, ImageBase |-> <<>>, GithubToken |-> <<>>,
     Owner |-> <<>>, Package |-> <<>>, Username |-> <<>>, Password |-> <<>>,
     PollInterval |-> 0]

\* as loadConfig, but the provider is compared as it was typed
loadConfig_CaseSensitive(e, stateDirMade) ==
    LET provider  == getEnvOrDefault(e.PROVIDER, Str_github)
        imageBase == e.IMAGE_BASE
        token     == StripNonPrintable(TrimSpace(e.GITHUB_TOKEN))
        parsed    == parseImageBase(imageBase)
        username  == TrimSpace(e.ARTIFACTORY_USERNAME)
        password  == TrimSpace(e.ARTIFACTORY_PASSWORD)
        pollInterval == getEnvAsIntOrDefault(e.POLL_INTERVAL, DefaultPollInterval)
        Fatal     == [fatal |-> TRUE, cfg |-> NoConfig]
    IN  IF imageBase = <<>> THEN Fatal
        ELSE IF provider = Str_github
        THEN IF token = <<>> \/ parsed.err \/ ~stateDirMade THEN Fatal
             ELSE [fatal |-> FALSE,
                   cfg |-> [Provider |-> provider, ImageBase |-> imageBase,
                            GithubToken |-> token, Owner |-> parsed.owner,
                            Package |-> parsed.packageName,
                            Username |-> <<>>, Password |-> <<>>,
                            PollInterval |-> pollInterval]]
        ELSE IF provider = Str_artifactory
        THEN IF username = <<>> \/ password = <<>> \/ ~stateDirMade THEN Fatal
             ELSE [fatal |-> FALSE,
                   cfg |-> [Provider |-> provider, ImageBase |-> imageBase,
                            GithubToken |-> <<>>, Owner |-> <<>>,
                            Package |-> <<>>,
                            Username |-> username, Password |-> password,
                            PollInterval |-> pollInterval]]
        ELSE Fatal

\* as loadConfig, but every credential of the environment is read
loadConfig_ReadsAllCredentials(e, stateDirMade) ==
    LET provider  == ToLower(getEnvOrDefault(e.PROVIDER, Str_github))
        imageBase == e.IMAGE_BASE
        token     == StripNonPrintable(TrimSpace(e.GITHUB_TOKEN))
        parsed    == parseImageBase(imageBase)
        username  == TrimSpace(e.ARTIFACTORY_USERNAME)
        password  == TrimSpace(e.ARTIFACTORY_PASSWORD)
        pollInterval == getEnvAsIntOrDefault(e.POLL_INTERVAL, DefaultPollInterval)
        Fatal     == [fatal |-> TRUE, cfg |-> NoConfig]
    IN  IF imageBase = <<>> THEN Fatal
        ELSE IF provider = Str_github
        THEN IF token = <<>> \/ parsed.err \/ ~stateDirMade THEN Fatal
             ELSE [fatal |-> FALSE,
                   cfg |-> [Provider |-> provider, ImageBase |-> imageBase,
                            GithubToken |-> token, Owner |-> parsed.owner,
                            Package |-> parsed.packageName,
                            Username |-> username, Password |-> password,
                            PollInterval |-> pollInterval]]
        ELSE IF provider = Str_artifactory
        THEN IF username = <<>> \/ password = <<>> \/ ~stateDirMade THEN Fatal
             ELSE [fatal |-> FALSE,
                   cfg |-> [Provider |-> provider, ImageBase |-> imageBase,
                            GithubToken |-> token, Owner |-> <<>>,
                            Package |-> <<>>,
                            Username |-> username, Password |-> password,
                            PollInterval |-> pollInterval]]
        ELSE Fatal

\* loadConfig: fatal is TRUE when logFatal ends the process, cfg is the
\* *Config returned otherwise; stateDirMade is whether os.MkdirAll of the
\* state directory (line 173) returns nil when it is reached
loadConfig(e, stateDirMade) ==
    LET provider  == ToLower(getEnvOrDefault(e.PROVIDER, Str_github))
        imageBase == e.IMAGE_BASE
        token     == StripNonPrintable(TrimSpace(e.GITHUB_TOKEN))
        parsed    == parseImageBase(imageBase)
        username  == TrimSpace(e.ARTIFACTORY_USERNAME)
        password  == TrimSpace(e.ARTIFACTORY_PASSWORD)
        pollInterval == getEnvAsIntOrDefault(e.POLL_INTERVAL, DefaultPollInterval)
        Fatal     == [fatal |-> TRUE, cfg |-> NoConfig]
    IN  IF imageBase = <<>> THEN Fatal
        ELSE IF provider = Str_github
        THEN IF token = <<>> \/ parsed.err \/ ~stateDirMade THEN Fatal
             ELSE [fatal |-> FALSE,
                   cfg |-> [Provider |-> provider, ImageBase |-> imageBase,
                            GithubToken |-> token, Owner |-> parsed.owner,
                            Package |-> parsed.packageName,
                            Username |-> <<>>, Password |-> <<>>,
                            PollInterval |-> pollInterval]]
        ELSE IF provider = Str_artifactory
        THEN IF username = <<>> \/ password = <<>> \/ ~stateDirMade THEN Fatal
             ELSE [fatal |-> FALSE,
                   cfg |-> [Provider |-> provider, ImageBase |-> imageBase,
                            GithubToken |-> <<>>, Owner |-> <<>>,
                            Package |-> <<>>,
                            Username |-> username, Password |-> password,
                            PollInterval |-> pollInterval]]
        ELSE Fatal

----------------------------------------------------------------------------
(* Version resolution: main.go getLatestTagOrDigest *)

V1 == <<"v","1">>

V2 == <<"v","2">>

Entry(id, updatedAt, tags) == [ID |-> id, UpdatedAt |-> updatedAt, Tags |-> tags]

\* bodies of a 200 answer that json.Unmarshal accepts
VersionLists ==
    { <<>>,
      <<Entry(1, 1, <<V1>>)>>,
      <<Entry(1, 2, <<V1, V2>>), Entry(7, 2, <<>>)>>,
      <<Entry(1, 1, <<V1>>), Entry(7, 2, <<>>)>>,
      <<Entry(7, 3, <<>>), Entry(1, 2, <<V1>>)>> }

\* what the package-metadata API can answer; status 0 stands for a request
\* that client.Do or io.ReadAll fails
Responses ==
    {[status |-> s, parses |-> FALSE, versions |-> <<>>] :
        s \in {0, 200, 401, 403, 404, 500}}
    \cup {[status |-> 200, parses |-> TRUE, versions |-> vs] : vs \in VersionLists}

NoResponse == [status |-> 0, parses |-> FALSE, versions |-> <<>>]

\* as MostRecent, but of the entries with the greatest UpdatedAt the last wins
RECURSIVE MostRecent_LastWins(_, _)
MostRecent_LastWins(versions, best) ==
    IF Len(versions) = 0 THEN best
    ELSE MostRecent_LastWins(Tail(versions),
                             IF Head(versions).UpdatedAt >= best.UpdatedAt
                             THEN Head(versions) ELSE best)

\* the range loop of lines 327-332: the first entry with the greatest UpdatedAt
RECURSIVE MostRecent(_, _)
MostRecent(versions, best) ==
    IF Len(versions) = 0 THEN best
    ELSE MostRecent(Tail(versions),
                    IF Head(versions).UpdatedAt > best.UpdatedAt
                    THEN Head(versions) ELSE best)

\* as getLatestTagOrDigest, but an empty version list is reported as an error
getLatestTagOrDigest_ZeroIsError(r) ==
    IF r.status # 200 \/ ~r.parses THEN [latest |-> <<>>, err |-> "status"]
    ELSE IF Len(r.versions) = 0 THEN [latest |-> <<>>, err |-> "empty"]
    ELSE LET v == MostRecent(r.versions, r.versions[1])
         IN  IF Len(v.Tags) > 0
             THEN [latest |-> v.Tags[1], err |-> ""]
             ELSE [latest |-> Str_versionid \o Itoa(v.ID), err |-> ""]

getLatestTagOrDigest(r) ==
    IF r.status = 0 THEN [latest |-> <<>>, err |-> "request"]
    ELSE IF r.status = 401 THEN [latest |-> <<>>, err |-> "auth401"]
    ELSE IF r.status = 403 THEN [latest |-> <<>>, err |-> "auth403"]
    ELSE IF r.status = 404 THEN [latest |-> <<>>, err |-> "notfound"]
    ELSE IF r.status # 200 THEN [latest |-> <<>>, err |-> "status"]
    ELSE IF ~r.parses THEN [latest |-> <<>>, err |-> "parse"]
    ELSE IF Len(r.versions) = 0 THEN [latest |-> <<>>, err |-> ""]
    ELSE LET v == MostRecent(r.versions, r.versions[1])
         IN  IF Len(v.Tags) > 0
             THEN [latest |-> v.Tags[1], err |-> ""]
             ELSE [latest |-> Str_versionid \o Itoa(v.ID), err |-> ""]

\* the text of the errors getLatestTagOrDigest returns (fmt.Errorf, lines
\* 287-319), word by word, without the values formatted into it
ErrorWords(err) ==
    CASE err = "request"  -> <<"failed", "to", "make", "API", "request:">>
      [] err = "auth401"  -> <<"authentication", "failed", "(401):", "invalid",
                               "or", "expired", "GITHUB_TOKEN">>
      [] err = "auth403"  -> <<"access", "forbidden", "(403):", "token", "may",
                               "lack", "required", "permissions",
                               "(read:packages).", "Message:">>
      [] err = "notfound" -> <<"package", "not", "found", "(404):", "Verify",
                               "package", "exists", "and", "token", "has",
                               "access">>
      [] err = "status"   -> <<"GitHub", "API", "returned", "status">>
      [] err = "parse"    -> <<"failed", "to", "parse", "GitHub", "API",
                               "response:">>
      [] OTHER            -> <<>>

----------------------------------------------------------------------------
(* Files, documents and what the registry serves *)

PolicyLayerMediaType == "application/vnd.cncf.kyverno.policy.layer.v1+yaml"

OtherMediaType == "application/vnd.oci.image.layer.v1.tar+gzip"

Ext_yaml == <<".","y","a","m","l">>

Ext_YML == <<".","Y","M","L">>

Ext_txt == <<".","t","x","t">>

FileName(stem, idx, ext) == [stem |-> stem, idx |-> idx, ext |-> ext]

NoFile == FileName("", 0, <<>>)

\* lexical order of the file names of the model, as filepath.Walk visits them
StemOrder == <<"a", "b", "layer", "policy">>

FileRank(f) == IndexFrom(StemOrder, f.stem, 1) * 10 + f.idx

RECURSIVE SortFiles(_)
SortFiles(S) ==
    IF S = {} THEN <<>>
    ELSE LET f == CHOOSE x \in S : \A y \in S : FileRank(x) <= FileRank(y)
         IN  <<f>> \o SortFiles(S \ {f})

\* a mapping with no key
Empty == [k \in {} |-> ""]

\* the mapping of the one key k to v
Single(k, v) == [x \in {k} |-> v]

\* f overridden by g
Override(f, g) ==
    [x \in DOMAIN f \cup DOMAIN g |-> IF x \in DOMAIN g THEN g[x] ELSE f[x]]

\* the value of key k in mapping f, def when f has no such key
Field(f, k, def) == IF k \in DOMAIN f THEN f[k] ELSE def

\* the bytes of a file, as the YAML they spell: valid is whether
\* yaml.Unmarshal into a Manifest returns nil, top is the top-level mapping
\* (key to value; the value of metadata, labels, annotations and spec is a
\* mapping in turn)
Doc(valid, top) == [valid |-> valid, top |-> top]

NoLabels == [k \in {} |-> <<>>]

Str_kyvernoWatcher == <<"k","y","v","e","r","n","o","-","w","a","t","c","h","e","r">>

Str_old == <<"o","l","d">>

Str_helm == <<"h","e","l","m">>

SpecPayload == [rules |-> "require-image-tag", background |-> "true"]

DocPlain ==
    Doc(TRUE, [apiVersion |-> "kyverno.io/v1", kind |-> "ClusterPolicy",
               metadata |-> [name |-> "p"], spec |-> SpecPayload])

DocLabelled ==
    Doc(TRUE, [apiVersion |-> "kyverno.io/v1", kind |-> "ClusterPolicy",
               metadata |-> [name |-> "p",
                             labels |-> [k \in {"app", "policy-version"} |->
                                            IF k = "app" THEN <<"x">> ELSE Str_old]],
               spec |-> SpecPayload])

\* bytes yaml.Unmarshal rejects
DocBad == Doc(FALSE, Empty)

\* a file of zero bytes: what O_TRUNC leaves when the write does not follow
DocTruncated == Doc(TRUE, Empty)

\* a Go map: nil, or made and holding kv
NilMap == [isNil |-> TRUE, kv |-> Empty]

MapOf(kv) == [isNil |-> FALSE, kv |-> kv]

\* yaml.Unmarshal(yamlData, &manifest) on bytes it accepts: the fields of
\* Manifest and ManifestMetadata are filled from the keys of their tags, a
\* key without a field is dropped, a field without a key keeps its zero value
Unmarshal(yamlData) ==
    LET top  == yamlData.top
        meta == Field(top, "metadata", Empty)
    IN  [APIVersion |-> Field(top, "apiVersion", ""),
         Kind       |-> Field(top, "kind", ""),
         Metadata   |->
            [Name      |-> Field(meta, "name", ""),
             Namespace |-> Field(meta, "namespace", ""),
             Labels    |-> IF "labels" \in DOMAIN meta
                           THEN MapOf(meta["labels"]) ELSE NilMap],
         Spec       |-> IF "spec" \in DOMAIN top
                        THEN MapOf(top["spec"]) ELSE NilMap]

\* as Marshal, but the namespace is never written
Marshal_DropsNamespace(manifest) ==
    LET md   == manifest.Metadata
        meta == Override([name |-> md.Name],
                    IF md.Labels.kv = Empty THEN Empty
                    ELSE Single("labels", md.Labels.kv))
    IN  Doc(TRUE,
            Override([apiVersion |-> manifest.APIVersion,
                      kind       |-> manifest.Kind,
                      metadata   |-> meta],
                     IF manifest.Spec.kv = Empty THEN Empty
                     ELSE Single("spec", manifest.Spec.kv)))

\* yaml.Marshal(&manifest): apiVersion, kind, metadata and metadata.name are
\* always written; namespace, labels and spec carry omitempty
Marshal(manifest) ==
    LET md   == manifest.Metadata
        meta == Override(Override(
                    [name |-> md.Name],
                    IF md.Namespace = "" THEN Empty
                    ELSE Single("namespace", md.Namespace)),
                    IF md.Labels.kv = Empty THEN Empty
                    ELSE Single("labels", md.Labels.kv))
    IN  Doc(TRUE,
            Override([apiVersion |-> manifest.APIVersion,
                      kind       |-> manifest.Kind,
                      metadata   |-> meta],
                     IF manifest.Spec.kv = Empty THEN Empty
                     ELSE Single("spec", manifest.Spec.kv)))

\* the content of a layer of zero bytes
NoContent == [valid |-> FALSE, top |-> Empty, empty |-> TRUE]

Layer(mediaType, content) == [mediaType |-> mediaType, content |-> content]

\* layer lists of the images the registry serves (pullOCI)
Images ==
    { <<>>,
      <<Layer(OtherMediaType, NoContent)>>,
      <<Layer(PolicyLayerMediaType, DocPlain)>>,
      <<Layer(OtherMediaType, DocBad), Layer(PolicyLayerMediaType, DocLabelled)>>,
      <<Layer(PolicyLayerMediaType, NoContent), Layer(OtherMediaType, DocPlain)>> }

OneFile(f, d) == [x \in {f} |-> d]

\* file sets of the artifacts oras.Copy materialises (orasPull)
OrasArtifacts ==
    { [x \in {} |-> DocPlain],
      OneFile(FileName("a", 0, Ext_yaml), DocPlain),
      [x \in {FileName("a", 0, Ext_YML), FileName("b", 0, Ext_txt)} |->
          IF x.stem = "a" THEN DocLabelled ELSE DocBad] }

Str_tmpImage == <<"/","t","m","p","/","i","m","a","g","e","-">>

\* as sanitizePath, but only the colons are replaced
sanitizePath_ColonOnly(s) == ReplaceAll(s, ":", "_")

sanitizePath(s) == ReplaceAll(ReplaceAll(s, ":", "_"), "/", "_")

DestDir(tag) == Str_tmpImage \o sanitizePath(tag)

\* findYAMLFiles on an existing directory with files dirFiles
findYAMLFiles(dirFiles) ==
    SortFiles({f \in DOMAIN dirFiles : ToLower(f.ext) \in {Ext_yaml, <<".","y","m","l">>}})

\* as processLayer, but every file is named after its index alone
processLayer_AlwaysLayer(layer, i) ==
    IF "empty" \in DOMAIN layer.content THEN [x \in {} |-> DocPlain]
    ELSE OneFile(FileName("layer", i, Ext_yaml), layer.content)

\* processLayer for the layer at index i: the file it writes, if any
processLayer(layer, i) ==
    IF "empty" \in DOMAIN layer.content THEN [x \in {} |-> DocPlain]
    ELSE IF layer.mediaType = PolicyLayerMediaType
    THEN OneFile(FileName("policy", i, Ext_yaml), layer.content)
    ELSE OneFile(FileName("layer", i, Ext_yaml), layer.content)

\* the files written by the layers at indices 0..n-1 of an image
RECURSIVE LayerFiles(_, _)
LayerFiles(img, n) ==
    IF n = 0 THEN [x \in {} |-> DocPlain]
    ELSE Override(LayerFiles(img, n - 1), processLayer(img[n], n - 1))

\* as addLabelsToYAML, but the labels of the document are replaced by the
\* two provenance labels
addLabelsToYAML_FreshLabels(yamlData, tag) ==
    LET manifest == Unmarshal(yamlData)
    IN  Marshal([manifest EXCEPT !.Metadata.Labels =
                    MapOf([k \in {"managed-by", "policy-version"} |->
                              IF k = "managed-by" THEN Str_kyvernoWatcher
                              ELSE tag])])

\* as addLabelsToYAML, but the tag is appended to the policy-version the
\* document already carries
addLabelsToYAML_AppendsVersion(yamlData, tag) ==
    LET manifest == Unmarshal(yamlData)
        labels   == manifest.Metadata.Labels.kv
    IN  Marshal([manifest EXCEPT !.Metadata.Labels =
                    MapOf(Override(labels,
                        [k \in {"managed-by", "policy-version"} |->
                            IF k = "managed-by" THEN Str_kyvernoWatcher
                            ELSE Field(labels, "policy-version", <<>>) \o tag]))])

\* addLabelsToYAML on bytes that yaml.Unmarshal accepts: the updated bytes
addLabelsToYAML(yamlData, tag) ==
    LET manifest == Unmarshal(yamlData)
        labels   == manifest.Metadata.Labels.kv
    IN  Marshal([manifest EXCEPT !.Metadata.Labels =
                    MapOf(Override(labels,
                        [k \in {"managed-by", "policy-version"} |->
                            IF k = "managed-by" THEN Str_kyvernoWatcher
                            ELSE tag]))])

----------------------------------------------------------------------------
(* The process: main.go main, watchLoop, pullImageToDirReal,
   applyManifestsReal *)

\* how many local I/O calls fail, or kills happen, in one run
MaxFaults == 1

Event(op, file, code) == [op |-> op, file |-> file, code |-> code]

NoStateFile == [exists |-> FALSE, data |-> <<>>]

\* as ReadLastFile, but the content of the state file is never seen
ReadLastFile_Nothing(readable) == <<>>

\* os.ReadFile(config.LastFile) with the error dropped: an absent file, or
\* one that cannot be read, gives nil
ReadLastFile(readable) ==
    IF lastFile.exists /\ readable THEN lastFile.data ELSE <<>>

\* as Return, but main ends the process on an error (log.Fatal)
Return_Fatal(r) ==
    /\ ret' = r
    /\ pc' = IF r = "nil" THEN "sleep" ELSE "fatal"

\* as Return, but main calls watchLoop again at once after an error
Return_NoSleep(r) ==
    /\ ret' = r
    /\ pc' = IF r = "nil" THEN "sleep" ELSE "loop"

\* return of watchLoop to main, which logs the error and goes to sleep
Return(r) ==
    /\ ret' = r
    /\ pc' = "sleep"

\* the outcomes of a local I/O call: it can fail while the run has failures
\* left to spend
MayFail == IF faults < MaxFaults THEN BOOLEAN ELSE {TRUE}

Spend(failed) == faults' = faults + (IF failed THEN 1 ELSE 0)

Init ==
    /\ pc = "main"
    /\ env \in Envs
    /\ config = NoConfig
    /\ lastFile = NoStateFile
    /\ resp = NoResponse
    /\ latest = <<>>
    /\ prevTag = <<>>
    /\ fs = [d \in {} |-> <<>>]
    /\ files = <<>>
    /\ trace = <<>>
    /\ ret = "none"
    /\ fileAtStart = NoStateFile
    /\ okVersions = {}
    /\ crashPc = ""
    /\ faults = 0
    /\ branch = ""
    /\ imageRef = <<>>
    /\ layers = <<>>
    /\ failedLayer = -1
    /\ yamlIn = DocBad
    /\ yamlTag = <<>>
    /\ yamlOut = <<>>

\* main, lines 87-99: loadConfig ends the process or returns the Config;
\* os.MkdirAll is reached when nothing before it was fatal
Main ==
    /\ pc = "main"
    /\ \E made \in IF loadConfig(env, TRUE).fatal THEN {TRUE} ELSE MayFail :
        LET r == loadConfig(env, made)
        IN  /\ Spend(~made)
            /\ IF r.fatal
               THEN /\ pc' = "fatal"
                    /\ UNCHANGED config
               ELSE /\ pc' = "loop"
                    /\ config' = r.cfg
    /\ UNCHANGED <<yamlVars, pullVars, env, lastFile, resp, latest, prevTag, fs, files,
                   trace, ret, fileAtStart, okVersions, crashPc, branch>>

\* as ResolveGithub, but the error of getLatestTagOrDigest is only logged
ResolveGithub_ErrorLogged ==
    /\ pc = "loop"
    /\ config.Provider = Str_github
    /\ \E r \in Responses :
        LET res == getLatestTagOrDigest(r)
        IN  /\ resp' = r
            /\ IF res.err = "" /\ res.latest = <<>>
               THEN Return("nil") /\ UNCHANGED latest
               ELSE /\ latest' = res.latest
                    /\ pc' = "compare"
                    /\ UNCHANGED ret
    /\ UNCHANGED <<yamlVars, pullVars, env, config, lastFile, prevTag, fs, files, trace,
                   fileAtStart, okVersions, crashPc, faults, branch>>

\* watchLoop, lines 223-232: the github branch of version resolution
ResolveGithub ==
    /\ pc = "loop"
    /\ config.Provider = Str_github
    /\ \E r \in Responses :
        LET res == getLatestTagOrDigest(r)
        IN  /\ resp' = r
            /\ IF res.err # ""
               THEN Return("resolve") /\ UNCHANGED latest
               ELSE IF res.latest = <<>>
               THEN Return("nil") /\ UNCHANGED latest
               ELSE /\ latest' = res.latest
                    /\ pc' = "compare"
                    /\ UNCHANGED ret
    /\ UNCHANGED <<yamlVars, pullVars, env, config, lastFile, prevTag, fs, files, trace,
                   fileAtStart, okVersions, crashPc, faults, branch>>

\* watchLoop, lines 233-241: the artifactory branch of version resolution
ResolveArtifactory ==
    /\ pc = "loop"
    /\ config.Provider # Str_github
    /\ LET parts == Split(config.ImageBase, ":")
       IN  IF Len(parts) < 2
           THEN Return("notag") /\ UNCHANGED latest
           ELSE /\ latest' = parts[Len(parts)]
                /\ pc' = "compare"
                /\ UNCHANGED ret
    /\ UNCHANGED <<yamlVars, pullVars, env, config, lastFile, resp, prevTag, fs, files, trace,
                   fileAtStart, okVersions, crashPc, faults, branch>>

\* as Changed, but every iteration reconciles
Changed_Always(new, prev) == TRUE

\* as Changed, but the resolved version is trimmed before the test, too
Changed_TrimsBoth(new, prev) == TrimSpace(new) # prev

\* watchLoop, line 246: the test that selects the branch
Changed(new, prev) == new # prev

\* as Compare, but a state file that cannot be read fails the iteration
Compare_ReadErrorReturned ==
    /\ pc = "compare"
    /\ \E readable \in MayFail :
        LET prev == TrimSpace(ReadLastFile(readable))
        IN  /\ prevTag' = prev
            /\ Spend(~readable)
            /\ IF ~readable
               THEN Return("read") /\ UNCHANGED branch
               ELSE IF Changed(latest, prev)
               THEN pc' = "pull" /\ branch' = "changed" /\ UNCHANGED ret
               ELSE Return("nil") /\ branch' = "nochange"
    /\ UNCHANGED <<yamlVars, pullVars, env, config, lastFile, resp, latest, fs, files, trace,
                   fileAtStart, okVersions, crashPc>>

\* watchLoop, lines 243-246 and 262-266: read the marker and compare
Compare ==
    /\ pc = "compare"
    /\ \E readable \in MayFail :
        LET prev == TrimSpace(ReadLastFile(readable))
        IN  /\ prevTag' = prev
            /\ Spend(~readable)
            /\ IF Changed(latest, prev)
               THEN pc' = "pull" /\ branch' = "changed" /\ UNCHANGED ret
               ELSE Return("nil") /\ branch' = "nochange"
    /\ UNCHANGED <<yamlVars, pullVars, env, config, lastFile, resp, latest, fs, files, trace,
                   fileAtStart, okVersions, crashPc>>

\* the files of directory d, none when it does not exist
DirFiles(d) == IF d \in DOMAIN fs THEN fs[d] ELSE [x \in {} |-> DocPlain]

WithDir(f, d, content) ==
    [x \in DOMAIN f \cup {d} |-> IF x = d THEN content ELSE f[x]]

WithoutDir(f, d) == [x \in DOMAIN f \ {d} |-> f[x]]

\* watchLoop, lines 249-251, and pullImageToDirReal, lines 347-353:
\* os.RemoveAll (a failure is only logged) and os.MkdirAll
PullPrepare ==
    /\ pc = "pull"
    /\ trace' = Append(trace, Event("pull", NoFile, 0))
    /\ \E removed \in MayFail, made \in MayFail :
        LET d     == DestDir(latest)
            after == IF removed THEN WithoutDir(fs, d) ELSE fs
            cost  == (IF removed THEN 0 ELSE 1) + (IF made THEN 0 ELSE 1)
        IN  /\ faults + cost <= MaxFaults
            /\ faults' = faults + cost
            /\ IF made
               THEN /\ fs' = WithDir(after, d,
                                      IF d \in DOMAIN after THEN after[d]
                                      ELSE [x \in {} |-> DocPlain])
                    /\ pc' = "fetch"
                    /\ UNCHANGED ret
               ELSE /\ fs' = after
                    /\ Return("pull")
    /\ UNCHANGED <<yamlVars, pullVars, env, config, lastFile, resp, latest, prevTag, files,
                   fileAtStart, okVersions, crashPc, branch>>

\* name.ParseReference (go-containerregistry) on the references of the
\* model: the text after the last colon is the tag, what is before it is the
\* repository, and a repository holds no colon after its registry host
ParseReferenceFails(ref) ==
    \E i \in 1..Len(ref) :
        /\ ref[i] = ":"
        /\ \E j \in (i + 1)..Len(ref) : ref[j] = ":"
        /\ \A k \in 1..Len(ref) : ref[k] = "/" => \E h \in 1..i : ref[h] = "/"

\* pullImageToDirReal, line 364: fmt.Sprintf("%s:%s", config.ImageBase, tag)
ImageRef(imageBase, tag) == imageBase \o <<":">> \o tag

\* as FetchOCI, but a layer that cannot be processed is skipped
FetchOCI_LayerErrorSkipped ==
    /\ pc = "fetch"
    /\ config.Provider # Str_artifactory
    /\ trace' = Append(trace, Event("fetch", NoFile, 0))
    /\ imageRef' = ImageRef(config.ImageBase, latest)
    /\ IF ParseReferenceFails(ImageRef(config.ImageBase, latest))
       THEN /\ Return("pull")
            /\ layers' = <<>>
            /\ failedLayer' = -1
            /\ UNCHANGED <<fs, faults>>
       ELSE \E img \in Images, reached \in BOOLEAN, done \in MayFail :
            \E n \in IF done THEN {Len(img)} ELSE 0..(Len(img) - 1) :
                LET d == DestDir(latest)
                IN  IF reached
                    THEN /\ fs' = WithDir(fs, d, Override(fs[d], LayerFiles(img, Len(img))))
                         /\ Spend(~done)
                         /\ layers' = img
                         /\ failedLayer' = IF done THEN -1 ELSE n
                         /\ pc' = "annotate" /\ UNCHANGED ret
                    ELSE /\ done
                         /\ Return("pull")
                         /\ layers' = <<>>
                         /\ failedLayer' = -1
                         /\ UNCHANGED <<fs, faults>>
    /\ UNCHANGED <<yamlVars, env, config, lastFile, resp, latest, prevTag, files,
                   fileAtStart, okVersions, crashPc, branch>>

\* pullImageToDirReal, lines 360-370, and pullOCI: the reference does not
\* parse (lines 507-510), the registry is not reached (lines 515-529), or
\* the layers before index n are written and processLayer fails at layer n;
\* n = Len(img) is a pull without error
FetchOCI ==
    /\ pc = "fetch"
    /\ config.Provider # Str_artifactory
    /\ trace' = Append(trace, Event("fetch", NoFile, 0))
    /\ imageRef' = ImageRef(config.ImageBase, latest)
    /\ IF ParseReferenceFails(ImageRef(config.ImageBase, latest))
       THEN /\ Return("pull")
            /\ layers' = <<>>
            /\ failedLayer' = -1
            /\ UNCHANGED <<fs, faults>>
       ELSE \E img \in Images, reached \in BOOLEAN, done \in MayFail :
            \E n \in IF done THEN {Len(img)} ELSE 0..(Len(img) - 1) :
                LET d == DestDir(latest)
                IN  IF reached
                    THEN /\ fs' = WithDir(fs, d, Override(fs[d], LayerFiles(img, n)))
                         /\ Spend(~done)
                         /\ layers' = img
                         /\ failedLayer' = IF done THEN -1 ELSE n
                         /\ IF done
                            THEN pc' = "annotate" /\ UNCHANGED ret
                            ELSE Return("pull")
                    ELSE /\ done
                         /\ Return("pull")
                         /\ layers' = <<>>
                         /\ failedLayer' = -1
                         /\ UNCHANGED <<fs, faults>>
    /\ UNCHANGED <<yamlVars, env, config, lastFile, resp, latest, prevTag, files,
                   fileAtStart, okVersions, crashPc, branch>>

\* pullImageToDirReal, lines 355-359, and orasPull
FetchOras ==
    /\ pc = "fetch"
    /\ config.Provider = Str_artifactory
    /\ trace' = Append(trace, Event("fetch", NoFile, 0))
    /\ \E art \in OrasArtifacts, reached \in BOOLEAN, done \in MayFail :
        LET d == DestDir(latest)
        IN  IF reached
            THEN /\ fs' = WithDir(fs, d, Override(fs[d], art))
                 /\ Spend(~done)
                 /\ IF done
                    THEN pc' = "annotate" /\ UNCHANGED ret
                    ELSE Return("pull")
            ELSE /\ done
                 /\ Return("pull")
                 /\ UNCHANGED <<fs, faults>>
    /\ UNCHANGED <<yamlVars, pullVars, env, config, lastFile, resp, latest, prevTag, files,
                   fileAtStart, okVersions, crashPc, branch>>

\* pullImageToDirReal, lines 372-376: findYAMLFiles(destDir)
AnnotateBegin ==
    /\ pc = "annotate"
    /\ \E walked \in MayFail :
        /\ Spend(~walked)
        /\ IF walked
           THEN LET fl == findYAMLFiles(DirFiles(DestDir(latest)))
                IN  /\ files' = fl
                    /\ trace' = Append(trace, Event("annotate", NoFile, 0))
                    /\ pc' = IF fl = <<>> THEN "apply" ELSE "label"
                    /\ UNCHANGED ret
           ELSE /\ Return("pull")
                /\ UNCHANGED <<files, trace>>
    /\ UNCHANGED <<yamlVars, pullVars, env, config, lastFile, resp, latest, prevTag, fs,
                   fileAtStart, okVersions, crashPc, branch>>

\* as addLabelsToManifest, but every file is left as it was
addLabelsToManifest_Skips(doc, tag, ioOK) == {doc}

\* what addLabelsToManifest can leave in a file holding doc: the labelled
\* document; the file as it was (read, parse or open error); or no bytes
\* (os.WriteFile truncated the file and the write failed)
addLabelsToManifest(doc, tag, ioOK) ==
    IF ~doc.valid THEN {doc}
    ELSE IF ioOK THEN {addLabelsToYAML(doc, tag)}
    ELSE {doc, DocTruncated}

\* pullImageToDirReal, lines 378-386: one turn of the range loop
Label ==
    /\ pc = "label"
    /\ files # <<>>
    /\ LET d == DestDir(latest)
           f == Head(files)
       IN  \E ioOK \in MayFail :
            \E out \in addLabelsToManifest(fs[d][f], latest, ioOK) :
              /\ fs' = WithDir(fs, d, Override(fs[d], OneFile(f, out)))
              /\ Spend(~ioOK)
    /\ trace' = Append(trace, Event("label", Head(files), 0))
    /\ files' = Tail(files)
    /\ pc' = IF Tail(files) = <<>> THEN "apply" ELSE "label"
    /\ UNCHANGED <<yamlVars, pullVars, env, config, lastFile, resp, latest, prevTag, ret,
                   fileAtStart, okVersions, crashPc, branch>>

\* applyManifestsReal returned nil: watchLoop goes on to line 259
ApplyReturnsNil ==
    /\ pc' = "persist"
    /\ okVersions' = okVersions \cup {latest}
    /\ UNCHANGED ret

\* as ApplyBegin, but watchLoop does not check the error of the apply step
ApplyBegin_ErrorIgnored ==
    /\ pc = "apply"
    /\ trace' = Append(trace, Event("apply", NoFile, 0))
    /\ \E walked \in MayFail :
        /\ Spend(~walked)
        /\ IF walked
           THEN LET fl == findYAMLFiles(DirFiles(DestDir(latest)))
                IN  /\ files' = fl
                    /\ IF fl = <<>>
                       THEN ApplyReturnsNil
                       ELSE pc' = "kubectl" /\ UNCHANGED <<ret, okVersions>>
           ELSE /\ pc' = "persist"
                /\ UNCHANGED <<files, okVersions, ret>>
    /\ UNCHANGED <<yamlVars, pullVars, env, config, lastFile, resp, latest, prevTag, fs,
                   fileAtStart, crashPc, branch>>

\* watchLoop, line 255, and applyManifestsReal, lines 603-613
ApplyBegin ==
    /\ pc = "apply"
    /\ trace' = Append(trace, Event("apply", NoFile, 0))
    /\ \E walked \in MayFail :
        /\ Spend(~walked)
        /\ IF walked
           THEN LET fl == findYAMLFiles(DirFiles(DestDir(latest)))
                IN  /\ files' = fl
                    /\ IF fl = <<>>
                       THEN ApplyReturnsNil
                       ELSE pc' = "kubectl" /\ UNCHANGED <<ret, okVersions>>
           ELSE /\ Return("apply")
                /\ UNCHANGED <<files, okVersions>>
    /\ UNCHANGED <<yamlVars, pullVars, env, config, lastFile, resp, latest, prevTag, fs,
                   fileAtStart, crashPc, branch>>

\* the exit statuses of kubectl apply
ExitCodes == {0, 1}

\* as Kubectl, but the loop stops at the first non-zero exit status
Kubectl_Break ==
    /\ pc = "kubectl"
    /\ files # <<>>
    /\ \E exitCode \in ExitCodes :
        /\ trace' = Append(trace, Event("kubectl", Head(files), exitCode))
        /\ files' = IF exitCode # 0 THEN <<>> ELSE Tail(files)
        /\ IF exitCode # 0 \/ Tail(files) = <<>>
           THEN ApplyReturnsNil
           ELSE pc' = "kubectl" /\ UNCHANGED <<ret, okVersions>>
    /\ UNCHANGED <<yamlVars, pullVars, env, config, lastFile, resp, latest, prevTag, fs,
                   fileAtStart, crashPc, faults, branch>>

\* as Kubectl, but a non-zero exit status is returned as an error
Kubectl_FailFast ==
    /\ pc = "kubectl"
    /\ files # <<>>
    /\ \E exitCode \in ExitCodes :
        /\ trace' = Append(trace, Event("kubectl", Head(files), exitCode))
        /\ files' = Tail(files)
        /\ IF exitCode # 0
           THEN Return("apply") /\ UNCHANGED okVersions
           ELSE IF Tail(files) = <<>>
           THEN ApplyReturnsNil
           ELSE pc' = "kubectl" /\ UNCHANGED <<ret, okVersions>>
    /\ UNCHANGED <<yamlVars, pullVars, env, config, lastFile, resp, latest, prevTag, fs,
                   fileAtStart, crashPc, faults, branch>>

\* applyManifestsReal, lines 617-630: one turn of the range loop
Kubectl ==
    /\ pc = "kubectl"
    /\ files # <<>>
    /\ \E exitCode \in ExitCodes :
        trace' = Append(trace, Event("kubectl", Head(files), exitCode))
    /\ files' = Tail(files)
    /\ IF Tail(files) = <<>>
       THEN ApplyReturnsNil
       ELSE pc' = "kubectl" /\ UNCHANGED <<ret, okVersions>>
    /\ UNCHANGED <<yamlVars, pullVars, env, config, lastFile, resp, latest, prevTag, fs,
                   fileAtStart, crashPc, faults, branch>>

\* watchLoop, line 259, the first half of os.WriteFile:
\* OpenFile(name, O_WRONLY|O_CREATE|O_TRUNC, perm)
PersistOpen ==
    /\ pc = "persist"
    /\ trace' = Append(trace, Event("write", NoFile, 0))
    /\ \E opened \in MayFail :
        /\ Spend(~opened)
        /\ IF opened
           THEN /\ lastFile' = [exists |-> TRUE, data |-> <<>>]
                /\ pc' = "write"
                /\ UNCHANGED ret
           ELSE /\ Return("write")
                /\ UNCHANGED lastFile
    /\ UNCHANGED <<yamlVars, pullVars, env, config, resp, latest, prevTag, fs, files,
                   fileAtStart, okVersions, crashPc, branch>>

\* as MarkerBytes, but nothing of the version reaches the marker
MarkerBytes_Empty(tag) == <<>>

\* as MarkerBytes, but the marker is written as a line
MarkerBytes_Line(tag) == tag \o <<"\n">>

\* watchLoop, line 259: []byte(latest), the bytes handed to os.WriteFile
MarkerBytes(tag) == tag

\* watchLoop, lines 259-261, the second half of os.WriteFile: f.Write and
\* f.Close. The marker is a few bytes handed to one write(2) call at offset
\* 0 of the truncated file: a write that fails (disk full, quota, I/O error)
\* leaves none of them. f.Close of the written file is taken to succeed.
PersistWrite ==
    /\ pc = "write"
    /\ \E written \in MayFail :
        \E data \in IF written THEN {MarkerBytes(latest)} ELSE {<<>>} :
            /\ lastFile' = [exists |-> TRUE, data |-> data]
            /\ Spend(~written)
            /\ Return(IF written THEN "nil" ELSE "write")
    /\ UNCHANGED <<yamlVars, pullVars, env, config, resp, latest, prevTag, fs, files, trace,
                   fileAtStart, okVersions, crashPc, branch>>

\* main, lines 100-105: time.Sleep, then the next call of watchLoop
Sleep ==
    /\ pc = "sleep"
    /\ pc' = "loop"
    /\ resp' = NoResponse
    /\ latest' = <<>>
    /\ prevTag' = <<>>
    /\ files' = <<>>
    /\ trace' = <<>>
    /\ ret' = "none"
    /\ fileAtStart' = lastFile
    /\ branch' = ""
    /\ imageRef' = <<>>
    /\ layers' = <<>>
    /\ failedLayer' = -1
    /\ UNCHANGED <<yamlVars, env, config, lastFile, fs, okVersions, crashPc, faults>>

Next ==
    \/ Main
    \/ ResolveGithub
    \/ ResolveArtifactory
    \/ Compare
    \/ PullPrepare
    \/ FetchOCI
    \/ FetchOras
    \/ AnnotateBegin
    \/ Label
    \/ ApplyBegin
    \/ Kubectl
    \/ PersistOpen
    \/ PersistWrite
    \/ Sleep

Spec == Init /\ [][Next]_vars

\* the positions inside the for loop of main
LoopPcs == {"loop", "compare", "pull", "fetch", "annotate", "label", "apply",
            "kubectl", "persist", "write", "sleep"}

\* the process is killed at any point of the loop; a kill between the
\* truncation and the return of os.WriteFile leaves the file empty (killed
\* before the write) or written (killed after it)
Crash ==
    /\ pc \in LoopPcs
    /\ faults < MaxFaults
    /\ faults' = faults + 1
    /\ crashPc' = pc
    /\ pc' = "crashed"
    /\ IF pc = "write"
       THEN \E data \in {<<>>, MarkerBytes(latest)} :
                lastFile' = [exists |-> TRUE, data |-> data]
       ELSE UNCHANGED lastFile
    /\ UNCHANGED <<yamlVars, pullVars, env, config, resp, latest, prevTag, fs, files, trace, ret,
                   fileAtStart, okVersions, branch>>

\* the supervisor starts the process again: main runs from its first line
\* with the files the killed process left
Restart ==
    /\ pc = "crashed"
    /\ pc' = "main"
    /\ config' = NoConfig
    /\ resp' = NoResponse
    /\ latest' = <<>>
    /\ prevTag' = <<>>
    /\ files' = <<>>
    /\ trace' = <<>>
    /\ ret' = "none"
    /\ fileAtStart' = lastFile
    /\ branch' = ""
    /\ crashPc' = ""
    /\ imageRef' = <<>>
    /\ layers' = <<>>
    /\ failedLayer' = -1
    /\ UNCHANGED <<yamlVars, env, lastFile, fs, okVersions, faults>>

NextCrash == Next \/ Crash \/ Restart

\* the process with kills and restarts
SpecCrash == Init /\ [][NextCrash]_vars

\* the single goroutine of main always takes its next step (every call it
\* makes is taken to return)
SpecFair == Spec /\ WF_vars(Next)

----------------------------------------------------------------------------
(* loadConfig on its own *)

Str_GitHub == <<"G","i","t","H","u","b">>

\* the environments loadConfig is checked on: every combination of a
\* provider selector, a reference and the three credentials
ConfigEnvs ==
    { MkEnv(p, ib, t, u, pw) :
        p  \in {<<>>, Str_GitHub, Str_artifactory, <<"x">>},
        ib \in {<<>>, Str_ghop, Str_gho, Str_rpV1},
        t  \in {<<>>, <<"t">>, <<" ">>, <<Ctrl>>},
        u  \in {<<>>, <<"u">>},
        pw \in {<<>>, <<"s">>} }

InitConfig ==
    /\ pc = "main"
    /\ env \in ConfigEnvs
    /\ config = NoConfig
    /\ lastFile = NoStateFile
    /\ resp = NoResponse
    /\ latest = <<>>
    /\ prevTag = <<>>
    /\ fs = [d \in {} |-> <<>>]
    /\ files = <<>>
    /\ trace = <<>>
    /\ ret = "none"
    /\ fileAtStart = NoStateFile
    /\ okVersions = {}
    /\ crashPc = ""
    /\ faults = 0
    /\ branch = ""
    /\ imageRef = <<>>
    /\ layers = <<>>
    /\ failedLayer = -1
    /\ yamlIn = DocBad
    /\ yamlTag = <<>>
    /\ yamlOut = <<>>

\* main up to the for loop
SpecConfig == InitConfig /\ [][Main]_vars

----------------------------------------------------------------------------
(* getEnvAsIntOrDefault and the poll interval on their own *)

\* the longest value of POLL_INTERVAL
MaxPollLen == 3

PollChars == {"0", "1", "7", "-", "+", " ", "a", "_"}

RECURSIVE StringsUpTo(_, _)
StringsUpTo(chars, n) ==
    IF n = 0 THEN {<<>>}
    ELSE LET shorter == StringsUpTo(chars, n - 1)
         IN  shorter \cup {Append(s, c) : s \in shorter, c \in chars}

\* one environment that loadConfig accepts per provider, with every value of
\* POLL_INTERVAL
PollEnvs ==
    { [e EXCEPT !.POLL_INTERVAL = v] :
        e \in {MkEnv(<<>>, Str_ghop, <<"t">>, <<>>, <<>>),
               MkEnv(Str_artifactory, Str_rpV1, <<>>, <<"u">>, <<"s">>)},
        v \in StringsUpTo(PollChars, MaxPollLen) }

InitPoll ==
    /\ pc = "main"
    /\ env \in PollEnvs
    /\ config = NoConfig
    /\ lastFile = NoStateFile
    /\ resp = NoResponse
    /\ latest = <<>>
    /\ prevTag = <<>>
    /\ fs = [d \in {} |-> <<>>]
    /\ files = <<>>
    /\ trace = <<>>
    /\ ret = "none"
    /\ fileAtStart = NoStateFile
    /\ okVersions = {}
    /\ crashPc = ""
    /\ faults = 0
    /\ branch = ""
    /\ imageRef = <<>>
    /\ layers = <<>>
    /\ failedLayer = -1
    /\ yamlIn = DocBad
    /\ yamlTag = <<>>
    /\ yamlOut = <<>>

\* main up to the for loop, for every value of POLL_INTERVAL
SpecPoll == InitPoll /\ [][Main]_vars

----------------------------------------------------------------------------
(* The comparison of watchLoop on its own *)

\* the longest version and the longest state file text
MaxTagLen == 2

TagChars == {"v", "1", " ", "\n"}

\* the state files the process can find: none, or one with any text
StateFiles ==
    {NoStateFile}
    \cup {[exists |-> TRUE, data |-> d] : d \in StringsUpTo(TagChars, MaxTagLen)}

\* watchLoop at line 243, with every resolved version and every state file
InitCompare ==
    /\ pc = "compare"
    /\ env = MkEnv(<<>>, Str_ghop, <<"t">>, <<>>, <<>>)
    /\ config = loadConfig(env, TRUE).cfg
    /\ lastFile \in StateFiles
    /\ resp = NoResponse
    /\ latest \in StringsUpTo(TagChars, MaxTagLen) \ {<<>>}
    /\ prevTag = <<>>
    /\ fs = [d \in {} |-> <<>>]
    /\ files = <<>>
    /\ trace = <<>>
    /\ ret = "none"
    /\ fileAtStart = lastFile
    /\ okVersions = {}
    /\ crashPc = ""
    /\ faults = 0
    /\ branch = ""
    /\ imageRef = <<>>
    /\ layers = <<>>
    /\ failedLayer = -1
    /\ yamlIn = DocBad
    /\ yamlTag = <<>>
    /\ yamlOut = <<>>

SpecCompare == InitCompare /\ [][Compare]_vars

----------------------------------------------------------------------------
(* parseImageBase on its own *)

\* the longest reference
MaxRefLen == 7

RefChars == {"o", "/", ":"}

\* github mode with a token and every reference
InitRef ==
    /\ pc = "main"
    /\ env \in {MkEnv(<<>>, ref, <<"t">>, <<>>, <<>>) :
                    ref \in StringsUpTo(RefChars, MaxRefLen)}
    /\ config = NoConfig
    /\ lastFile = NoStateFile
    /\ resp = NoResponse
    /\ latest = <<>>
    /\ prevTag = <<>>
    /\ fs = [d \in {} |-> <<>>]
    /\ files = <<>>
    /\ trace = <<>>
    /\ ret = "none"
    /\ fileAtStart = NoStateFile
    /\ okVersions = {}
    /\ crashPc = ""
    /\ faults = 0
    /\ branch = ""
    /\ imageRef = <<>>
    /\ layers = <<>>
    /\ failedLayer = -1
    /\ yamlIn = DocBad
    /\ yamlTag = <<>>
    /\ yamlOut = <<>>

\* main up to the for loop, for every reference
SpecRef == InitRef /\ [][Main]_vars

----------------------------------------------------------------------------
(* sanitizePath on its own *)

\* the longest version handed to sanitizePath
MaxPathLen == 4

PathChars == {"a", ":", "/", "_"}

\* watchLoop at line 249, with every version
InitPath ==
    /\ pc = "pull"
    /\ env = MkEnv(<<>>, Str_ghop, <<"t">>, <<>>, <<>>)
    /\ config = loadConfig(env, TRUE).cfg
    /\ lastFile = NoStateFile
    /\ resp = NoResponse
    /\ latest \in StringsUpTo(PathChars, MaxPathLen) \ {<<>>}
    /\ prevTag = <<>>
    /\ fs = [d \in {} |-> <<>>]
    /\ files = <<>>
    /\ trace = <<>>
    /\ ret = "none"
    /\ fileAtStart = NoStateFile
    /\ okVersions = {}
    /\ crashPc = ""
    /\ faults = 0
    /\ branch = "changed"
    /\ imageRef = <<>>
    /\ layers = <<>>
    /\ failedLayer = -1
    /\ yamlIn = DocBad
    /\ yamlTag = <<>>
    /\ yamlOut = <<>>

SpecPath == InitPath /\ [][PullPrepare]_vars

----------------------------------------------------------------------------
(* addLabelsToYAML on its own *)

\* how many times in a row addLabelsToYAML is applied to its own output
MaxPasses == 2

\* the sets of optional entries of a mapping: key k absent, or k with one
\* of vals
Optional(k, vals) == {Empty} \cup {Single(k, v) : v \in vals}

LabelMaps ==
    { NoLabels,
      Single("app", <<"x">>),
      [k \in {"app", "policy-version"} |-> IF k = "app" THEN <<"x">> ELSE Str_old],
      Single("managed-by", Str_helm) }

\* the metadata mappings of the documents, and no metadata at all
Metadatas ==
    {Empty} \cup
    { Single("metadata", Override(Override(Override([name |-> "p"], ns), l), a)) :
        ns \in Optional("namespace", {"ns"}),
        l  \in Optional("labels", LabelMaps),
        a  \in Optional("annotations", {[title |-> "Require image tag"]}) }

\* the documents handed to addLabelsToYAML: every combination of the keys a
\* policy file can carry, bytes that do not parse, and no bytes
YAMLDocs ==
    { Doc(TRUE, Override(Override(Override(
                    Override(api, [kind |-> "ClusterPolicy"]), md), sp), st)) :
        api \in Optional("apiVersion", {"kyverno.io/v1"}),
        md  \in Metadatas,
        sp  \in Optional("spec", {Empty, SpecPayload}),
        st  \in Optional("status", {[ready |-> "true"]}) }
    \cup {DocBad, DocTruncated}

InitYAML ==
    /\ pc = "yaml"
    /\ env = MkEnv(<<>>, <<>>, <<>>, <<>>, <<>>)
    /\ config = NoConfig
    /\ lastFile = NoStateFile
    /\ resp = NoResponse
    /\ latest = <<>>
    /\ prevTag = <<>>
    /\ fs = [d \in {} |-> <<>>]
    /\ files = <<>>
    /\ trace = <<>>
    /\ ret = "none"
    /\ fileAtStart = NoStateFile
    /\ okVersions = {}
    /\ crashPc = ""
    /\ faults = 0
    /\ branch = ""
    /\ imageRef = <<>>
    /\ layers = <<>>
    /\ failedLayer = -1
    /\ yamlIn \in YAMLDocs
    /\ yamlTag \in {V1, V2}
    /\ yamlOut = <<>>

\* the bytes the next call is handed: the bytes of the file at first, the
\* bytes the last call returned afterwards
YamlNext == IF yamlOut = <<>> THEN yamlIn ELSE yamlOut[Len(yamlOut)]

\* addLabelsToYAML, lines 481-503, returns the updated bytes
AddLabels ==
    /\ pc = "yaml"
    /\ Len(yamlOut) < MaxPasses
    /\ YamlNext.valid
    /\ yamlOut' = Append(yamlOut, addLabelsToYAML(YamlNext, yamlTag))
    /\ UNCHANGED <<pc, env, config, lastFile, resp, latest, prevTag, fs, files,
                   trace, ret, fileAtStart, okVersions, crashPc, faults,
                   branch, yamlIn, yamlTag, pullVars>>

\* addLabelsToYAML, lines 483-485, returns the error of yaml.Unmarshal
AddLabelsError ==
    /\ pc = "yaml"
    /\ ~YamlNext.valid
    /\ pc' = "yamlerr"
    /\ UNCHANGED <<env, config, lastFile, resp, latest, prevTag, fs, files,
                   trace, ret, fileAtStart, okVersions, crashPc, faults,
                   branch, yamlVars, pullVars>>

NextYAML == AddLabels \/ AddLabelsError

SpecYAML == InitYAML /\ [][NextYAML]_vars

----------------------------------------------------------------------------
(* Properties *)

\* the text of a state file, the empty string when there is no file
Content(f) == IF f.exists THEN f.data ELSE <<>>

Ops == [i \in 1..Len(trace) |-> trace[i].op]

HasOp(op) == \E i \in 1..Len(trace) : trace[i].op = op

CountOp(op) == Cardinality({i \in 1..Len(trace) : trace[i].op = op})

\* the first position of op in the trace, 0 when it is not there
IndexOp(op) == IndexFrom(Ops, op, 1)

\* the stages of the iteration, without the per-file calls
StageOps == SelectSeq(Ops, LAMBDA o : o \notin {"label", "kubectl"})

\* the files handed to kubectl apply, in call order
KubectlFiles ==
    LET calls == SelectSeq(trace, LAMBDA e : e.op = "kubectl")
    IN  [i \in 1..Len(calls) |-> calls[i].file]

\* the document files of the destination directory of this iteration
DestYAMLFiles == findYAMLFiles(DirFiles(DestDir(latest)))

\* the iteration is over and watchLoop has returned
IterationDone == pc = "sleep"

\* C1: the state file is absent, empty, or holds a version whose pull and
\* apply both returned success; os.WriteFile is called at most once per
\* iteration and only after pull and apply of that iteration returned success.
C1_MarkerIsAppliedVersion ==
    /\ lastFile.exists =>
          lastFile.data = <<>> \/ lastFile.data \in okVersions
    /\ CountOp("write") <= 1
    /\ HasOp("write") =>
          /\ IndexOp("fetch") > 0
          /\ IndexOp("fetch") < IndexOp("apply")
          /\ IndexOp("apply") < IndexOp("write")
          /\ latest \in okVersions

C1_Witness ==
    /\ IterationDone
    /\ HasOp("write")
    /\ fileAtStart = [exists |-> TRUE, data |-> V1]
    /\ lastFile.exists
    /\ lastFile.data # V1
    /\ lastFile.data \in okVersions

\* C2: an iteration that ends in an error leaves the text of the state file
\* as it was when the iteration began.
C2_FailedIterationKeepsMarker ==
    (IterationDone /\ ret # "nil") => Content(lastFile) = Content(fileAtStart)

\* C3: after a kill while the marker is being written, the state file holds
\* the complete previous text or the complete new text.
C3_CrashLeavesOldOrNew ==
    (pc = "crashed" /\ crashPc = "write") =>
        Content(lastFile) \in {Content(fileAtStart), latest}

\* C4: when the resolved version equals the marker the iteration read, it
\* calls neither pull, annotate nor apply, does not write the state file,
\* leaves it unchanged and returns nil.
C4_NoChangeDoesNothing ==
    (branch # "" /\ latest = prevTag) =>
        /\ branch = "nochange"
        /\ IterationDone
        /\ ret = "nil"
        /\ trace = <<>>
        /\ lastFile = fileAtStart

C4_Witness ==
    /\ IterationDone
    /\ branch = "nochange"
    /\ latest = V1
    /\ lastFile = [exists |-> TRUE, data |-> V1]
    /\ trace = <<>>

\* C5: whenever the marker read is empty, the comparison takes the Changed
\* branch, for every provider and every configured reference.
C5_EmptyMarkerAlwaysChanged ==
    (branch # "" /\ prevTag = <<>>) => branch = "changed"

\* C6: an iteration that takes the Changed branch and returns nil has called
\* pull, fetch, annotate, apply and the marker write once each and in that
\* order, the per-file labelling between annotate and apply, the per-file
\* kubectl calls between apply and the write, and leaves the marker equal to
\* the resolved version.
C6_ChangedCycleInOrder ==
    (IterationDone /\ branch = "changed" /\ ret = "nil") =>
        /\ StageOps = <<"pull", "fetch", "annotate", "apply", "write">>
        /\ \A i \in 1..Len(trace) :
              /\ trace[i].op = "label" =>
                    IndexOp("annotate") < i /\ i < IndexOp("apply")
              /\ trace[i].op = "kubectl" =>
                    IndexOp("apply") < i /\ i < IndexOp("write")
        /\ lastFile = [exists |-> TRUE, data |-> latest]

C6_Witness ==
    /\ IterationDone
    /\ branch = "changed"
    /\ ret = "nil"
    /\ HasOp("label")
    /\ HasOp("kubectl")
    /\ fileAtStart = [exists |-> TRUE, data |-> V1]
    /\ lastFile.data = latest
    /\ latest # V1

\* C7: once in the loop the process never leaves it: every return of
\* watchLoop, with or without error, is followed by the sleep, the sleep by a
\* new call that starts with version resolution, and so on without end.
C7_LoopNeverEnds ==
    /\ [][(pc \in LoopPcs) => (pc' \in LoopPcs)]_vars
    /\ [][(ret' # ret /\ ret' # "none") => (pc' = "sleep")]_vars
    /\ [][(pc = "sleep") => (pc' = "loop")]_vars
    /\ [](pc \in LoopPcs => <>(pc = "sleep"))
    /\ [](pc = "sleep" => <>(pc = "loop" /\ ret = "none" /\ trace = <<>>))

C7_Witness ==
    /\ pc = "loop"
    /\ faults = 1
    /\ lastFile = [exists |-> TRUE, data |-> <<>>]
    /\ fileAtStart = lastFile

\* C8: when the API answers 200 with no version, getLatestTagOrDigest returns
\* the empty version and no error, and the iteration calls neither pull,
\* annotate nor apply, does not touch the state file and returns nil.
C8_ZeroVersionsIsNoOp ==
    (IterationDone /\ resp.status = 200 /\ resp.parses /\ resp.versions = <<>>) =>
        /\ getLatestTagOrDigest(resp) = [latest |-> <<>>, err |-> ""]
        /\ ret = "nil"
        /\ branch = ""
        /\ trace = <<>>
        /\ lastFile = fileAtStart

C8_Witness ==
    /\ IterationDone
    /\ resp.status = 200 /\ resp.parses /\ resp.versions = <<>>
    /\ lastFile = [exists |-> TRUE, data |-> V1]

\* C9: for every set of document files of the destination directory and
\* every assignment of exit statuses, kubectl is called exactly once per
\* document file, in the order of the listing; applyManifestsReal returns nil
\* and the iteration goes on to the one write of the state file, whose
\* success leaves the resolved version as the marker. Nothing but that write
\* can fail after the listing.
C9_EveryFileAppliedThenMarker ==
    (IterationDone /\ HasOp("apply") /\ ret # "apply") =>
        /\ KubectlFiles = DestYAMLFiles
        /\ CountOp("write") = 1
        /\ Ops[Len(trace)] = "write"
        /\ ret \in {"nil", "write"}
        /\ ret = "nil" => lastFile = [exists |-> TRUE, data |-> latest]

C9_Witness ==
    /\ IterationDone
    /\ ret = "nil"
    /\ Len(KubectlFiles) = 2
    /\ \E i, j \in 1..Len(trace) :
          /\ i < j
          /\ trace[i].op = "kubectl" /\ trace[i].code # 0
          /\ trace[j].op = "kubectl" /\ trace[j].code = 0
    /\ lastFile = [exists |-> TRUE, data |-> latest]

\* C10 as stated: an iteration that reached the apply step goes on to the
\* marker write, whatever the apply step does.
C10_ApplyNeverAborts ==
    (IterationDone /\ HasOp("apply")) => HasOp("write")

\* C10 as amended: an iteration that reached the apply step goes on to the
\* marker write for every exit status of kubectl; it is aborted only when
\* the directory cannot be enumerated, before any kubectl call.
C10_OnlyEnumerationAborts ==
    (IterationDone /\ HasOp("apply")) =>
        \/ HasOp("write")
        \/ ret = "apply" /\ ~HasOp("kubectl")

C10_Witness ==
    /\ IterationDone
    /\ HasOp("write")
    /\ \E i \in 1..Len(trace) : trace[i].op = "kubectl" /\ trace[i].code # 0
    /\ \A i \in 1..Len(trace) : trace[i].op = "kubectl" => trace[i].code # 0

\* C11: in every turn of the annotation loop the file at hand is either
\* annotated or, when it cannot be read, parsed or written back, left with
\* the content it had; it is annotated when it parses and no call fails; no
\* other file is touched, and the loop goes on to the next file and then to
\* the return of nil, whatever happened to this file.
C11_AnnotationErrorsIsolated ==
    [][pc = "label" =>
        LET d      == DestDir(latest)
            f      == Head(files)
            before == fs[d][f]
            after  == fs'[d][f]
        IN  /\ files' = Tail(files)
            /\ pc' = (IF Tail(files) = <<>> THEN "apply" ELSE "label")
            /\ ret' = ret
            /\ DOMAIN fs'[d] = DOMAIN fs[d]
            /\ \A g \in DOMAIN fs[d] \ {f} : fs'[d][g] = fs[d][g]
            /\ IF before.valid /\ faults' = faults
               THEN after = addLabelsToYAML(before, latest)
               ELSE after = before]_vars

\* the label mapping the bytes of a document spell, empty when they spell
\* none
LabelsOf(doc) == Field(Field(doc.top, "metadata", Empty), "labels", NoLabels)

\* the bytes handed to call i of addLabelsToYAML
YamlInput(i) == IF i = 1 THEN yamlIn ELSE yamlOut[i - 1]

ProvenanceKeys == {"managed-by", "policy-version"}

\* C12: for every document that parses, with label mapping L or none, and
\* every tag, the label mapping of the bytes addLabelsToYAML returns has the
\* keys of L and the two provenance keys and no other; managed-by is
\* kyverno-watcher and policy-version is the tag whatever L held for them;
\* every other key has the value it has in L.
C12_LabelsOverridden ==
    \A i \in 1..Len(yamlOut) :
        LET L == LabelsOf(YamlInput(i))
            R == LabelsOf(yamlOut[i])
        IN  /\ DOMAIN R = DOMAIN L \cup ProvenanceKeys
            /\ R["managed-by"] = Str_kyvernoWatcher
            /\ R["policy-version"] = yamlTag
            /\ \A k \in DOMAIN L \ ProvenanceKeys : R[k] = L[k]

C12_Witness ==
    /\ Len(yamlOut) = 1
    /\ yamlTag = V2
    /\ DOMAIN LabelsOf(yamlIn) = {"app", "policy-version"}
    /\ LabelsOf(yamlIn)["policy-version"] = Str_old
    /\ LabelsOf(yamlOut[1])["app"] = <<"x">>
    /\ LabelsOf(yamlOut[1])["policy-version"] = V2

\* C13: for every document that parses and every tag, handing the bytes
\* addLabelsToYAML returned to addLabelsToYAML again with the same tag
\* returns the same bytes, hence the same label mapping.
C13_AnnotateIdempotent ==
    \A i \in 2..Len(yamlOut) :
        /\ yamlOut[i] = yamlOut[i - 1]
        /\ LabelsOf(yamlOut[i]) = LabelsOf(yamlOut[i - 1])

C13_Witness ==
    /\ Len(yamlOut) >= 2
    /\ yamlOut[1] # yamlIn
    /\ "app" \in DOMAIN LabelsOf(yamlIn)
    /\ "status" \in DOMAIN yamlIn.top
    /\ yamlOut[2] = yamlOut[1]

\* C14 as stated: the Manifest read from the bytes addLabelsToYAML returns
\* has the apiVersion, kind, name and namespace of the Manifest read from the
\* bytes it was handed, every label of it with the same value, and a spec
\* with the same keys and values.
C14_RoundTripKeepsEveryLabel ==
    \A i \in 1..Len(yamlOut) :
        LET a == Unmarshal(YamlInput(i))
            b == Unmarshal(yamlOut[i])
        IN  /\ b.APIVersion = a.APIVersion
            /\ b.Kind = a.Kind
            /\ b.Metadata.Name = a.Metadata.Name
            /\ b.Metadata.Namespace = a.Metadata.Namespace
            /\ \A k \in DOMAIN a.Metadata.Labels.kv :
                  /\ k \in DOMAIN b.Metadata.Labels.kv
                  /\ b.Metadata.Labels.kv[k] = a.Metadata.Labels.kv[k]
            /\ b.Spec.kv = a.Spec.kv

\* C14 as amended: the same, but only the labels other than managed-by and
\* policy-version keep their value; those two are present with the
\* provenance values.
C14_RoundTripKeepsOtherLabels ==
    \A i \in 1..Len(yamlOut) :
        LET a == Unmarshal(YamlInput(i))
            b == Unmarshal(yamlOut[i])
        IN  /\ b.APIVersion = a.APIVersion
            /\ b.Kind = a.Kind
            /\ b.Metadata.Name = a.Metadata.Name
            /\ b.Metadata.Namespace = a.Metadata.Namespace
            /\ \A k \in DOMAIN a.Metadata.Labels.kv :
                  /\ k \in DOMAIN b.Metadata.Labels.kv
                  /\ k \notin ProvenanceKeys =>
                        b.Metadata.Labels.kv[k] = a.Metadata.Labels.kv[k]
            /\ b.Metadata.Labels.kv["managed-by"] = Str_kyvernoWatcher
            /\ b.Metadata.Labels.kv["policy-version"] = yamlTag
            /\ b.Spec.kv = a.Spec.kv

C14_Witness ==
    /\ Len(yamlOut) = 1
    /\ Unmarshal(yamlIn).Metadata.Namespace = "ns"
    /\ Unmarshal(yamlIn).Metadata.Labels.kv = Single("managed-by", Str_helm)
    /\ Unmarshal(yamlIn).Spec.kv = SpecPayload
    /\ Unmarshal(yamlOut[1]).Spec.kv = SpecPayload
    /\ Unmarshal(yamlOut[1]).Metadata.Namespace = "ns"

\* C15: the bytes written back for a document carry every top-level key of
\* the document and every key of its metadata with the value it had, the
\* labels apart, and every label other than the two provenance labels with
\* the value it had.
C15_OnlyProvenanceLabelsChange ==
    \A i \in 1..Len(yamlOut) :
        LET in  == YamlInput(i).top
            out == yamlOut[i].top
            im  == Field(in, "metadata", Empty)
            om  == Field(out, "metadata", Empty)
        IN  /\ \A k \in DOMAIN in \ {"metadata"} :
                  k \in DOMAIN out /\ out[k] = in[k]
            /\ \A k \in DOMAIN im \ {"labels"} :
                  k \in DOMAIN om /\ om[k] = im[k]
            /\ \A k \in DOMAIN LabelsOf(YamlInput(i)) \ ProvenanceKeys :
                  /\ k \in DOMAIN LabelsOf(yamlOut[i])
                  /\ LabelsOf(yamlOut[i])[k] = LabelsOf(YamlInput(i))[k]

\* C16: in github mode, when the API answers 401, 403, 404, another status
\* than 200, or a body that does not parse, getLatestTagOrDigest returns an
\* error and no version: for 401 and 403 one whose text names the read scope
\* the token needs (read:packages), for 404 the not-found error, otherwise
\* the status or parse error; watchLoop returns the error before it reads
\* the state file, and pulls, applies and writes nothing.
C16_ResolverErrors ==
    (/\ IterationDone
     /\ config.Provider = Str_github
     /\ resp.status # 0
     /\ resp.status # 200 \/ ~resp.parses) =>
        LET res == getLatestTagOrDigest(resp)
        IN  /\ res.err # ""
            /\ res.latest = <<>>
            /\ resp.status \in {401, 403} =>
                  \E i \in 1..Len(ErrorWords(res.err)) :
                      ErrorWords(res.err)[i] = "(read:packages)."
            /\ resp.status = 404 => res.err = "notfound"
            /\ resp.status \notin {401, 403, 404} => res.err \in {"status", "parse"}
            /\ ret = "resolve"
            /\ branch = ""
            /\ prevTag = <<>>
            /\ trace = <<>>
            /\ lastFile = fileAtStart

\* C17: in artifactory mode, when the configured reference carries a tag
\* (text after a colon in its last path segment) the version of the
\* iteration is that tag; when it carries none, watchLoop returns the
\* missing-tag error, calls neither pull nor apply and leaves the state file
\* as it was.
C17_VersionIsTagOfReference ==
    (IterationDone /\ config.Provider = Str_artifactory) =>
        LET segments == Split(config.ImageBase, "/")
            name     == Split(segments[Len(segments)], ":")
        IN  IF Len(name) >= 2
            THEN ret # "notag" /\ latest = name[Len(name)]
            ELSE /\ ret = "notag"
                 /\ trace = <<>>
                 /\ lastFile = fileAtStart

\* C18: a configuration error is found by loadConfig, before the loop is
\* entered: no call of watchLoop returns the error that the configured
\* reference is unusable (IMAGE_BASE without a tag).
C18_ConfigErrorsOnlyAtStartup ==
    pc \in LoopPcs => ret # "notag"

\* the provider selector of the environment: PROVIDER in lower case, github
\* when it is unset
Selector == ToLower(IF env.PROVIDER = <<>> THEN Str_github ELSE env.PROVIDER)

\* a variable that is unset, empty or blank
Missing(value) == TrimSpace(value) = <<>>

\* the fatal cases of C19
ListedFatal ==
    \/ env.IMAGE_BASE = <<>>
    \/ Selector \notin {Str_github, Str_artifactory}
    \/ Selector = Str_github /\ Missing(env.GITHUB_TOKEN)
    \/ Selector = Str_artifactory /\ Missing(env.ARTIFACTORY_USERNAME)
    \/ Selector = Str_artifactory /\ Missing(env.ARTIFACTORY_PASSWORD)
    \/ Selector = Str_github /\ parseImageBase(env.IMAGE_BASE).err

\* what C19 says of a returned configuration
ReturnedConfigOK ==
    /\ pc = "loop"
    /\ config.Provider = Selector
    /\ config.Provider = Str_github => config.GithubToken # <<>>
    /\ config.Provider = Str_artifactory =>
          config.Username # <<>> /\ config.Password # <<>>

\* C19 as stated: loadConfig is fatal in the listed cases and returns a
\* configuration in every other case, with the lower-cased selector as
\* provider and non-empty credentials for it.
C19_FatalExactlyWhenListed ==
    pc # "main" => IF ListedFatal THEN pc = "fatal" ELSE ReturnedConfigOK

\* C19 as amended: loadConfig is fatal also when, in github mode, the token
\* holds nothing but characters outside printable ASCII, and when the state
\* directory cannot be created.
C19_FatalCases ==
    pc # "main" =>
        IF \/ ListedFatal
           \/ Selector = Str_github /\ StripNonPrintable(TrimSpace(env.GITHUB_TOKEN)) = <<>>
           \/ faults > 0
        THEN pc = "fatal"
        ELSE ReturnedConfigOK

C19_Witness ==
    /\ pc = "loop"
    /\ env.PROVIDER = Str_GitHub
    /\ config.Provider = Str_github
    /\ config.GithubToken = <<"t">>

\* C20: a configuration returned by loadConfig holds the credentials of its
\* provider and no other: in github mode a token and neither username nor
\* password, in artifactory mode username and password and no token,
\* whatever the environment holds.
C20_OneCredentialSet ==
    pc = "loop" =>
        \/ /\ config.Provider = Str_github
           /\ config.GithubToken # <<>>
           /\ config.Username = <<>> /\ config.Password = <<>>
        \/ /\ config.Provider = Str_artifactory
           /\ config.Username # <<>> /\ config.Password # <<>>
           /\ config.GithubToken = <<>>

C20_Witness ==
    /\ pc = "loop"
    /\ config.Provider = Str_artifactory
    /\ env.GITHUB_TOKEN = <<"t">>
    /\ config.GithubToken = <<>>

\* a reference that is a registry host followed by at least two non-empty
\* path segments, a tag after the first colon apart
Decomposes(ref) ==
    LET segments == Split(Split(ref, ":")[1], "/")
    IN  /\ Len(segments) >= 3
        /\ \A i \in 2..Len(segments) : segments[i] # <<>>

\* C21: the reference of every configuration the loop runs with, for either
\* provider, is a registry host followed by at least two non-empty path
\* segments (owner and package).
C21_ReferenceDecomposes ==
    pc \in LoopPcs => Decomposes(config.ImageBase)

\* C22: the poll interval of every configuration the loop is entered with is
\* a positive number of seconds.
C22_PollIntervalPositive ==
    pc = "loop" => config.PollInterval > 0

\* a decimal integer literal: digits, or a sign and digits
IsIntegerLiteral(s) ==
    /\ s # <<>>
    /\ LET digits == IF Head(s) \in {"+", "-"} THEN Tail(s) ELSE s
       IN  /\ digits # <<>>
           /\ \A i \in 1..Len(digits) : digits[i] \in DigitSet

LiteralValue(s) ==
    IF Head(s) = "-" THEN 0 - ParseDigits(Tail(s), 0)
    ELSE IF Head(s) = "+" THEN ParseDigits(Tail(s), 0)
    ELSE ParseDigits(s, 0)

\* C23: the poll interval getEnvAsIntOrDefault returns is the value of
\* POLL_INTERVAL when that is an integer literal (zero and negative ones
\* included) and the default of 30 when it is unset, empty or anything else.
C23_IntegerOrDefault ==
    pc = "loop" =>
        config.PollInterval =
            IF IsIntegerLiteral(env.POLL_INTERVAL)
            THEN LiteralValue(env.POLL_INTERVAL)
            ELSE 30

\* C24: when the pull strategy starts fetching, the destination directory
\* exists and holds no file.
C24_FetchStartsInEmptyDir ==
    pc = "fetch" =>
        /\ DestDir(latest) \in DOMAIN fs
        /\ DOMAIN fs[DestDir(latest)] = {}

\* C25: a call of watchLoop begins only from the sleep that follows the
\* return of the call before it, and every return of watchLoop, with or
\* without an error, leads to the sleep: the steps of two cycles never
\* interleave.
C25_CyclesStrictlySequential ==
    [][/\ ((pc' = "loop" /\ pc # "main") => (pc = "sleep" /\ ret # "none"))
       /\ ((ret' # ret /\ ret' # "none") => (pc' = "sleep"))
       /\ ((pc = "sleep") => (pc' = "loop" /\ ret' = "none" /\ trace' = <<>>))]_vars

C25_Witness ==
    /\ pc = "sleep"
    /\ ret = "resolve"
    /\ okVersions # {}

\* the greatest update timestamp of a non-empty version list
MaxUpdatedAt(versions) ==
    CHOOSE m \in {versions[i].UpdatedAt : i \in 1..Len(versions)} :
        \A i \in 1..Len(versions) : versions[i].UpdatedAt <= m

\* the first entry, in list order, that carries the greatest timestamp
FirstNewest(versions) ==
    versions[CHOOSE i \in 1..Len(versions) :
                /\ versions[i].UpdatedAt = MaxUpdatedAt(versions)
                /\ \A j \in 1..(i - 1) :
                      versions[j].UpdatedAt # MaxUpdatedAt(versions)]

\* C26: for every non-empty version list the API returns, the version of the
\* iteration is the first tag of the first entry with the greatest update
\* timestamp, or version-id-<id> of that entry when it has no tag.
C26_FirstNewestEntryWins ==
    (pc \in LoopPcs /\ resp.status = 200 /\ resp.parses /\ resp.versions # <<>>) =>
        LET v == FirstNewest(resp.versions)
        IN  latest = IF v.Tags # <<>> THEN v.Tags[1]
                     ELSE Str_versionid \o Itoa(v.ID)

C26_Witness ==
    /\ pc = "compare"
    /\ Len(resp.versions) = 2
    /\ resp.versions[1].UpdatedAt = resp.versions[2].UpdatedAt
    /\ latest = V1

\* the text of the state file as the iteration finds it: nothing when the
\* file is absent or the read failed
FoundText == IF faults > 0 THEN <<>> ELSE Content(lastFile)

\* C27 as stated: the Changed branch is taken exactly when the resolved
\* version differs from the exact text of the state file.
C27_ChangedIffTextDiffers ==
    branch # "" => (branch = "changed" <=> latest # FoundText)

\* C27 as amended: the Changed branch is taken exactly when the resolved
\* version differs from the text of the state file without its leading and
\* trailing white space.
C27_ChangedIffTrimmedTextDiffers ==
    branch # "" => (branch = "changed" <=> latest # TrimSpace(FoundText))

C27_Witness ==
    /\ branch = "nochange"
    /\ lastFile.data # latest
    /\ lastFile.data = latest \o <<"\n">>

\* C28: the read of the state file never ends the iteration with an error:
\* the step that reads it goes on to the pull or returns nil, and when the
\* file is absent or cannot be read the marker is the empty string and the
\* branch is the one the comparison with the empty string selects.
C28_ReadNeverFailsIteration ==
    [][(pc = "compare") =>
         (/\ pc' \in {"pull", "sleep"}
          /\ ret' \in {"none", "nil"}
          /\ branch' \in {"changed", "nochange"}
          /\ ((~lastFile.exists \/ faults' > faults) =>
                (/\ prevTag' = <<>>
                 /\ branch' = IF latest # <<>> THEN "changed" ELSE "nochange")))]_vars

C28_Witness ==
    /\ pc = "pull"
    /\ lastFile.exists
    /\ lastFile.data = latest
    /\ prevTag = <<>>

\* the version resolution of the current iteration returned an error
ResolutionFailed ==
    \/ config.Provider = Str_github /\ getLatestTagOrDigest(resp).err # ""
    \/ config.Provider # Str_github /\ Len(Split(config.ImageBase, ":")) < 2

\* C29: when version resolution returns an error, watchLoop returns it at
\* once and main goes to sleep: the state file is neither read nor written,
\* and pull, annotate and apply are not called.
C29_ResolveErrorEndsIteration ==
    (pc \in LoopPcs \ {"loop"} /\ ResolutionFailed) =>
        /\ pc = "sleep"
        /\ ret \in {"resolve", "notag"}
        /\ branch = ""
        /\ prevTag = <<>>
        /\ trace = <<>>
        /\ lastFile = fileAtStart

C29_Witness ==
    /\ pc = "sleep"
    /\ ret = "resolve"
    /\ resp.status = 500
    /\ lastFile.exists
    /\ lastFile.data = V1

\* the '/'-separated segments of a reference cut at its first colon
Segments(ref) ==
    LET colon == IndexFrom(ref, ":", 1)
    IN  Split(IF colon = 0 THEN ref ELSE SubSeq(ref, 1, colon - 1), "/")

PackageOf(ref) == Join(SubSeq(Segments(ref), 3, Len(Segments(ref))), "/")

\* C30: a reference that, cut at its first colon, has at least 3 segments
\* with a non-empty owner and package is accepted with owner = segment[1]
\* and package = the remaining segments joined by '/', and a ':tag' suffix
\* changes neither; every other reference is rejected.
C30_OwnerAndPackage ==
    (pc # "main" /\ faults = 0) =>
        LET ref == env.IMAGE_BASE
        IN  IF /\ Len(Segments(ref)) >= 3
               /\ Segments(ref)[2] # <<>>
               /\ PackageOf(ref) # <<>>
            THEN /\ pc = "loop"
                 /\ config.Owner = Segments(ref)[2]
                 /\ config.Package = PackageOf(ref)
                 /\ parseImageBase(ref \o <<":", "o">>).owner = config.Owner
                 /\ parseImageBase(ref \o <<":", "o">>).packageName = config.Package
            ELSE pc = "fatal"

C30_Witness ==
    /\ pc = "loop"
    /\ env.IMAGE_BASE = <<"o", "/", "o", "/", "o", "/", "o">>
    /\ config.Owner = <<"o">>
    /\ config.Package = <<"o", "/", "o">>

\* the sanitized version in the name of a destination directory
SanitizedIn(dir) == SubSeq(dir, Len(Str_tmpImage) + 1, Len(dir))

\* C31: sanitizePath replaces every ':' and every '/' by '_' and changes no
\* other character; its output holds neither ':' nor '/', and sanitizing the
\* output again gives the output.
C31_SanitizePath ==
    pc = "fetch" =>
        \A dir \in DOMAIN fs :
            LET out == SanitizedIn(dir)
            IN  /\ Len(out) = Len(latest)
                /\ \A i \in 1..Len(out) :
                      out[i] = IF latest[i] \in {":", "/"} THEN "_" ELSE latest[i]
                /\ \A i \in 1..Len(out) : out[i] \notin {":", "/"}
                /\ sanitizePath(out) = out

C31_Witness ==
    /\ pc = "fetch"
    /\ latest = <<"a", ":", "/", "_">>
    /\ DOMAIN fs = {Str_tmpImage \o <<"a", "_", "_", "_">>}

\* the manifest indices (from 0) of the layers with content
NonEmptyLayers(img) ==
    {i \in 0..(Len(img) - 1) : "empty" \notin DOMAIN img[i + 1].content}

\* the name C32 gives the file of the layer at manifest index i
LayerFileName(img, i) ==
    FileName(IF img[i + 1].mediaType = PolicyLayerMediaType
             THEN "policy" ELSE "layer", i, Ext_yaml)

\* C32: a pull of the layer-walk strategy that returns nil has written, for
\* each layer with content at manifest index i, the one file policy-i.yaml
\* (policy-layer media type) or layer-i.yaml (any other) holding that
\* content, and nothing for an empty layer: as many files as layers with
\* content.
C32_OneFilePerNonEmptyLayer ==
    [][(pc = "fetch" /\ pc' = "annotate" /\ config.Provider = Str_github) =>
         (LET dir     == DestDir(latest)
              indices == NonEmptyLayers(layers')
              names   == {LayerFileName(layers', i) : i \in indices}
          IN  /\ Cardinality(names) = Cardinality(indices)
              /\ DOMAIN fs'[dir] = DOMAIN fs[dir] \cup names
              /\ \A i \in indices :
                    fs'[dir][LayerFileName(layers', i)] = layers'[i + 1].content
              /\ \A f \in DOMAIN fs[dir] \ names : fs'[dir][f] = fs[dir][f])]_vars

C32_Witness ==
    /\ pc = "annotate"
    /\ Len(layers) = 2
    /\ NonEmptyLayers(layers) = {1}
    /\ DOMAIN fs[DestDir(latest)] = {FileName("layer", 1, Ext_yaml)}

\* the pull of this iteration returned nil and no layer had content
PulledNothing ==
    /\ config.Provider = Str_github
    /\ HasOp("annotate")
    /\ NonEmptyLayers(layers) = {}

\* C33: after a pull that extracted no file the directory holds no document:
\* nothing is annotated, kubectl is not called, and the iteration returns
\* nil (an error can only come from listing the directory or from writing
\* the marker).
C33_EmptyPullAppliesNothing ==
    PulledNothing =>
        /\ DestYAMLFiles = <<>>
        /\ ~HasOp("label")
        /\ ~HasOp("kubectl")
        /\ IterationDone => ret \in {"nil", "apply", "write"}

\* the state file held, when the iteration began, what an iteration that
\* resolved the current version wrote to it at line 259
PersistedLatest ==
    /\ fileAtStart.exists
    /\ fileAtStart.data = MarkerBytes(latest)

\* C34 as stated: an iteration that resolves the version the state file
\* holds takes the NoChange branch, whatever the version is.
C34_PersistedVersionIsNoChange ==
    (branch # "" /\ PersistedLatest) => branch = "nochange"

\* C34: an iteration that resolves the version the state file holds takes
\* the NoChange branch (so pulls and applies nothing) when the state file can
\* be read and the version has no white space at either end.
C34_ReadablePersistedVersionIsNoChange ==
    (/\ branch # ""
     /\ PersistedLatest
     /\ faults = 0
     /\ TrimSpace(latest) = latest) => (branch = "nochange" /\ pc = "sleep" /\ ret = "nil")

C34_Witness ==
    /\ branch = "nochange"
    /\ PersistedLatest
    /\ faults = 0
    /\ latest = V1

\* every iteration that ends has resolved V1
ResolvesV1 == IterationDone => latest = V1

\* os.ReadFile of line 243 gave the content the state file had
ReadSucceeded == branch # "" => prevTag = TrimSpace(Content(fileAtStart))

\* the iteration found the marker equal to the version it resolved
MarkerIsLatest ==
    /\ branch # ""
    /\ latest = V1
    /\ Content(fileAtStart) = V1

\* nothing is pulled, applied or written in the iteration
Quiet ==
    /\ branch = "nochange"
    /\ ~HasOp("pull")
    /\ ~HasOp("apply")
    /\ ~HasOp("write")
    /\ lastFile = fileAtStart

\* when the resolver ends up returning V1 for ever and iterations that
\* return nil keep happening, the marker ends up equal to V1 with no more
\* pull
EventuallyConverged ==
    (<>[]ResolvesV1 /\ []<>(IterationDone /\ ret = "nil"))
        => <>[](Content(lastFile) = V1 /\ ~HasOp("pull"))

\* an iteration that resolves V1 while the marker is not V1 goes to the pull
RetriesUntilConverged ==
    [][(pc = "compare" /\ latest = V1 /\ TrimSpace(Content(lastFile)) # V1)
          => (pc' = "pull" /\ branch' = "changed")]_vars

\* C35 as stated: convergence, and once the marker equals the resolved
\* version no iteration that resolves it pulls, applies or writes the state.
C35_Convergence ==
    /\ EventuallyConverged
    /\ [](MarkerIsLatest => Quiet)
    /\ RetriesUntilConverged

\* C35: convergence: when the resolver ends up returning the same version V1
\* for ever and pull, apply and marker write keep succeeding, the marker
\* ends up equal to V1; once it is, an iteration that resolves V1 and reads
\* the state file successfully pulls, applies and writes nothing; before
\* that, every iteration that resolves V1 goes to the pull.
C35_ConvergenceWhileReadable ==
    /\ EventuallyConverged
    /\ []((MarkerIsLatest /\ ReadSucceeded) => Quiet)
    /\ RetriesUntilConverged

C35_Witness ==
    /\ IterationDone
    /\ MarkerIsLatest
    /\ ReadSucceeded
    /\ Quiet
    /\ okVersions = {V1}

\* the document carries the two provenance labels, with version tag
CarriesProvenance(doc, tag) ==
    /\ doc.valid
    /\ ProvenanceKeys \subseteq DOMAIN LabelsOf(doc)
    /\ LabelsOf(doc)["managed-by"] = Str_kyvernoWatcher
    /\ LabelsOf(doc)["policy-version"] = tag

\* the files kubectl apply was run on in this iteration; no step changes a
\* file of the directory between the first kubectl call and the end of the
\* iteration
AppliedDocs ==
    {DirFiles(DestDir(latest))[trace[i].file] :
        i \in {j \in 1..Len(trace) : trace[j].op = "kubectl"}}

\* the iteration went through pull, apply and marker write and returned nil
CycleCompleted == IterationDone /\ branch = "changed" /\ ret = "nil"

RepositoryPath(imageBase) == Split(imageBase, ":")[1]

\* C37: in github mode the reference handed to pullOCI is the repository
\* path of IMAGE_BASE, one colon and the resolved version, so it holds
\* exactly one tag separator.
C37_SingleTagSeparator ==
    (config.Provider = Str_github /\ imageRef # <<>>) =>
        /\ imageRef = RepositoryPath(config.ImageBase) \o <<":">> \o latest
        /\ Len(Split(imageRef, ":")) = 2

\* the names processLayer can give the layers of img above index i
NamesAbove(img, i) ==
    {FileName(stem, j, Ext_yaml) :
        stem \in {"policy", "layer"}, j \in (i + 1)..(Len(img) - 1)}

\* C38: when processLayer fails at the layer of index failedLayer, the
\* fetch step writes no file of a higher index, the pull returns an
\* error and the iteration ends there: no file is annotated, kubectl apply is
\* not run, and the marker is what it was when the iteration began.
C38_LayerFailureStopsPull ==
    /\ [](failedLayer >= 0 =>
            /\ pc = "sleep"
            /\ ret = "pull"
            /\ ~HasOp("annotate")
            /\ ~HasOp("label")
            /\ ~HasOp("apply")
            /\ ~HasOp("kubectl")
            /\ ~HasOp("write")
            /\ lastFile = fileAtStart)
    /\ [][failedLayer' >= 0 =>
            \A f \in NamesAbove(layers', failedLayer') :
                /\ f \in DOMAIN DirFiles(DestDir(latest))' => f \in DOMAIN DirFiles(DestDir(latest))
                /\ f \in DOMAIN DirFiles(DestDir(latest)) =>
                      DirFiles(DestDir(latest))'[f] = DirFiles(DestDir(latest))[f]]_vars

C38_Witness ==
    /\ failedLayer = 0
    /\ Len(layers) = 2
    /\ NonEmptyLayers(layers) = {0, 1}
    /\ DOMAIN DirFiles(DestDir(latest)) = {}
    /\ ret = "pull"

====
